---- MODULE Spec2Model ----
(***************************************************************************)
(* Model of the release-notes aggregator of bflam1/RSS.  The repository    *)
(* holds two scripts, src/rssfeed.py and src/RSSFEED.py.  Both share       *)
(* normalize_quotes, the heading search and parse_version_date; they       *)
(* differ in their exception handling and in the Atom loop.                *)
(*                                                                         *)
(* Text is a sequence of Unicode code points.                              *)
(***************************************************************************)
EXTENDS Integers, Sequences, FiniteSets, TLC

VARIABLES
    nIn, nOut, nOut2, nPc,          \* the Text Normalizer on one text
    xResp, xRes, xScript, xBuild,   \* fetch_latest_release_html on one response
    script, build, pc, i, entries, log, clock, raisedIn, feedUpdated
                                    \* one run of a script

(***************************************************************************)
(* Bounds                                                                  *)
(***************************************************************************)
MaxLen == 3

MaxNodes == 3

NumHtml == 2

(***************************************************************************)
(* Generic sequence helpers                                                *)
(***************************************************************************)
SeqsUpTo(S, n) == UNION {[1..k -> S] : k \in 0..n}

RECURSIVE Flatten(_)
Flatten(ss) == IF ss = <<>> THEN <<>> ELSE Head(ss) \o Flatten(Tail(ss))

StartsWith(s, prefix) ==
    /\ Len(s) >= Len(prefix)
    /\ SubSeq(s, 1, Len(prefix)) = prefix

(***************************************************************************)
(* Text Normalizer: normalize_quotes                                       *)
(***************************************************************************)

\* The characters the inputs are drawn from:
\*   38 '&', 108 'l', 116 't', 59 ';'      an entity escape  &lt  &lt;  &ll;
\*   226, 128, 156, 152                     Latin-1 characters whose bytes are
\*                                          the UTF-8 of U+201C (E2 80 9C) and
\*                                          of U+2018 (E2 80 98)
\*   195                                    C3: with 128 the UTF-8 of U+00C0
\*   8220, 8216                             the glyphs U+201C and U+2018
Alphabet == {38, 108, 116, 59, 226, 128, 156, 152, 195, 8220, 8216}

Texts == SeqsUpTo(Alphabet, MaxLen)

\* the lists of lines 44 and 46
SmartDouble == {8220, 8221, 8222, 8223}
SmartSingle == {8216, 8217}

\* html.unescape: the character class [^\t\n\f <&#;] of a named reference
IsNameChar(c) == c \notin {9, 10, 12, 32, 60, 38, 35, 59}

\* html.entities.html5 restricted to the names that can be written with the
\* letters of Alphabet ('l' and 't'): lt, lt; and ll;
Html5Names == {<<108, 116>>, <<108, 116, 59>>, <<108, 108, 59>>}

Html5(name) == IF name = <<108, 108, 59>> THEN <<8810>> ELSE <<60>>

\* length of the run of name characters of s that starts at p, at most 32
RECURSIVE NameRun(_, _, _)
NameRun(s, p, n) ==
    IF p <= Len(s) /\ n < 32 /\ IsNameChar(s[p])
    THEN NameRun(s, p + 1, n + 1)
    ELSE n

\* the longest proper prefix of name, of length x .. 2, that is an entity
RECURSIVE LongestPrefix(_, _)
LongestPrefix(name, x) ==
    IF x < 2 THEN 0
    ELSE IF SubSeq(name, 1, x) \in Html5Names THEN x
    ELSE LongestPrefix(name, x - 1)

\* html._replace_charref for a named reference (a numeric reference needs
\* '#', which is not in Alphabet)
replace_charref(name) ==
    IF name \in Html5Names THEN Html5(name)
    ELSE LET x == LongestPrefix(name, Len(name) - 1)
         IN  IF x > 0
             THEN Html5(SubSeq(name, 1, x)) \o SubSeq(name, x + 1, Len(name))
             ELSE <<38>> \o name

\* re.sub of the character-reference pattern, scanning from position p
RECURSIVE CharrefSub(_, _)
CharrefSub(s, p) ==
    IF p > Len(s) THEN <<>>
    ELSE IF s[p] # 38 THEN <<s[p]>> \o CharrefSub(s, p + 1)
    ELSE LET n == NameRun(s, p + 1, 0)
             semi == p + n + 1 <= Len(s) /\ s[p + n + 1] = 59
             name == SubSeq(s, p + 1, p + n) \o (IF semi THEN <<59>> ELSE <<>>)
         IN  IF n = 0
             THEN <<38>> \o CharrefSub(s, p + 1)
             ELSE replace_charref(name) \o CharrefSub(s, p + 1 + Len(name))

\* html.escape, the opposite conversion
RECURSIVE escape(_)
escape(s) ==
    IF s = <<>> THEN <<>>
    ELSE (CASE Head(s) = 38 -> <<38, 97, 109, 112, 59>>
            [] Head(s) = 60 -> <<38, 108, 116, 59>>
            [] Head(s) = 62 -> <<38, 103, 116, 59>>
            [] OTHER -> <<Head(s)>>) \o escape(Tail(s))

unescape(s) ==
    IF \A p \in DOMAIN s : s[p] # 38 THEN s ELSE CharrefSub(s, 1)

\* str.encode('latin-1', errors='ignore'): a character above U+00FF has no
\* Latin-1 byte and is dropped
Latin1Encode(s) == SelectSeq(s, LAMBDA c : c <= 255)

IsCont(b) == b >= 128 /\ b <= 191

\* What the byte at position p of b contributes to
\* bytes.decode('utf-8', errors='ignore'): an ASCII byte is itself, a lead
\* byte followed by all its continuation bytes is the code point of the
\* sequence, and every other byte gives nothing (-1): it is a continuation
\* byte, which is either part of the sequence before it or invalid, or an
\* invalid start byte, or a lead byte whose sequence is ill-formed or
\* truncated.  The decoder resumes at the offending byte, and no lead byte
\* is a continuation byte, so each byte can be judged where it stands.
Utf8At(b, p) ==
    LET c == b[p]
        left == Len(b) - p + 1
        c2 == IF left >= 2 THEN b[p + 1] ELSE 0
        c3 == IF left >= 3 THEN b[p + 2] ELSE 0
        c4 == IF left >= 4 THEN b[p + 3] ELSE 0
        ok2 == IF c = 224 THEN c2 >= 160 /\ c2 <= 191
               ELSE IF c = 237 THEN c2 >= 128 /\ c2 <= 159
               ELSE IF c = 240 THEN c2 >= 144 /\ c2 <= 191
               ELSE IF c = 244 THEN c2 >= 128 /\ c2 <= 143
               ELSE IsCont(c2)
    IN  IF c < 128 THEN c
        ELSE IF c < 194 \/ c > 244 THEN -1
        ELSE IF c < 224
             THEN IF ok2 THEN (c - 192) * 64 + (c2 - 128) ELSE -1
        ELSE IF c < 240
             THEN IF ok2 /\ IsCont(c3)
                  THEN (c - 224) * 4096 + (c2 - 128) * 64 + (c3 - 128)
                  ELSE -1
        ELSE IF ok2 /\ IsCont(c3) /\ IsCont(c4)
             THEN (c - 240) * 262144 + (c2 - 128) * 4096
                  + (c3 - 128) * 64 + (c4 - 128)
             ELSE -1

\* bytes.decode('utf-8', errors='ignore'): the contributions, in order
Utf8Decode(b) ==
    SelectSeq([p \in DOMAIN b |-> Utf8At(b, p)], LAMBDA c : c >= 0)

\* the two replace loops of lines 44-47
ReplaceQuotes(s) ==
    [p \in DOMAIN s |->
        IF s[p] \in SmartDouble THEN 34
        ELSE IF s[p] \in SmartSingle THEN 39
        ELSE s[p]]

\* normalize_quotes.  The try/except around the re-decode never fires:
\* with errors='ignore' neither encode nor decode raises.
normalize_quotes(text) ==
    ReplaceQuotes(Utf8Decode(Latin1Encode(unescape(text))))

(***************************************************************************)
(* Documents.  A parsed HTML document is a sequence of leaf nodes in       *)
(* document order; a maximal run of leaves of depth 1 is the content of    *)
(* one <div> child of the root, a leaf of depth 0 is itself a child of the *)
(* root.  A leaf is a string node ("#text") or a tag with one string.      *)
(***************************************************************************)
Leaf(name, text, href) == [name |-> name, text |-> text, href |-> href]

TextNode == Leaf("#text", <<10>>, <<>>)                           \* "\n"

ParaNode == Leaf("p", <<105, 116, 8217, 115>>, <<>>)            \* <p>it’s</p>

\* <a href="../foo">x</a>
RelLinkNode == Leaf("a", <<120>>, <<46, 46, 47, 102, 111, 111>>)

\* <a href="#top">x</a>
AnchorLinkNode == Leaf("a", <<120>>, <<35, 116, 111, 112>>)

\* <h2>Version 2.1 (March 3, 2024)</h2>
VersionH2 ==
    Leaf("h2", <<86, 101, 114, 115, 105, 111, 110, 32, 50, 46, 49, 32, 40,
                 77, 97, 114, 99, 104, 32, 51, 44, 32, 50, 48, 50, 52, 41>>,
         <<>>)

\* <h3>  VERSION 3 (2024-01-05T10:00+02:00) </h3>
VersionH3 ==
    Leaf("h3", <<32, 32, 86, 69, 82, 83, 73, 79, 78, 32, 51, 32, 40, 50, 48,
                 50, 52, 45, 48, 49, 45, 48, 53, 84, 49, 48, 58, 48, 48, 43,
                 48, 50, 58, 48, 48, 41, 32>>, <<>>)

\* <h4>Notes (beta)</h4>
NotesH4 ==
    Leaf("h4", <<78, 111, 116, 101, 115, 32, 40, 98, 101, 116, 97, 41>>, <<>>)

Leaves ==
    {TextNode, ParaNode, RelLinkNode, AnchorLinkNode, VersionH2, VersionH3,
     NotesH4}

Nodes == {[leaf |-> l, depth |-> d] : l \in Leaves, d \in {0, 1}}

Docs == SeqsUpTo(Nodes, MaxNodes)

HeadingNames == {"h2", "h3", "h4"}

IsSpace(c) == c \in {9, 10, 11, 12, 13, 32}

RECURSIVE LStrip(_)
LStrip(s) == IF s # <<>> /\ IsSpace(Head(s)) THEN LStrip(Tail(s)) ELSE s

RECURSIVE RStrip(_)
RStrip(s) ==
    IF s # <<>> /\ IsSpace(s[Len(s)])
    THEN RStrip(SubSeq(s, 1, Len(s) - 1))
    ELSE s

\* tag.get_text(strip=True) of a tag that holds one string
get_text(node) == RStrip(LStrip(node.leaf.text))

\* str.lower
Lower(s) == [p \in DOMAIN s |-> IF s[p] >= 65 /\ s[p] <= 90 THEN s[p] + 32 ELSE s[p]]

\* text.lower().startswith('version')
IsVersionText(text) ==
    StartsWith(Lower(text), <<118, 101, 114, 115, 105, 111, 110>>)

\* soup.find_all(['h2', 'h3', 'h4']): the positions of the headings, in
\* document order (a <div> is searched through, it is not a heading)
HeadingPositions(doc) == {p \in DOMAIN doc : doc[p].leaf.name \in HeadingNames}

Min(S) == CHOOSE x \in S : \A y \in S : x <= y

Max(S) == CHOOSE x \in S : \A y \in S : x >= y

\* a mistaken heading search: the last "version" heading instead of the first
LastVersionHeader(doc) ==
    LET vs == {p \in HeadingPositions(doc) : IsVersionText(get_text(doc[p]))}
    IN  IF vs # {} THEN Max(vs)
        ELSE IF HeadingPositions(doc) # {} THEN Min(HeadingPositions(doc))
        ELSE 0

\* the header of lines 56-65: the first heading whose text starts with
\* "version", else soup.find(['h2', 'h3', 'h4']), else None (0)
FindHeader(doc) ==
    LET vs == {p \in HeadingPositions(doc) : IsVersionText(get_text(doc[p]))}
    IN  IF vs # {} THEN Min(vs)
        ELSE IF HeadingPositions(doc) # {} THEN Min(HeadingPositions(doc))
        ELSE 0

\* the last position of the run of depth-1 leaves that contains p
RECURSIVE RunEnd(_, _)
RunEnd(doc, p) ==
    IF p < Len(doc) /\ doc[p + 1].depth = 1 THEN RunEnd(doc, p + 1) ELSE p

Item(first, last, div) == [first |-> first, last |-> last, div |-> div]

\* the children of the root from position p on
RECURSIVE TopItems(_, _)
TopItems(doc, p) ==
    IF p > Len(doc) THEN <<>>
    ELSE IF doc[p].depth = 0
         THEN <<Item(p, p, FALSE)>> \o TopItems(doc, p + 1)
         ELSE <<Item(p, RunEnd(doc, p), TRUE)>>
              \o TopItems(doc, RunEnd(doc, p) + 1)

\* the siblings that follow the node at position h in its parent
FollowingSiblings(doc, h) ==
    IF doc[h].depth = 0
    THEN TopItems(doc, h + 1)
    ELSE [k \in 1..(RunEnd(doc, h) - h) |-> Item(h + k, h + k, FALSE)]

\* isinstance(sib, Tag) and sib.name in ['h2', 'h3', 'h4']
IsStop(doc, it) == ~it.div /\ doc[it.first].leaf.name \in HeadingNames

\* the siblings before the first stopping heading
RECURSIVE UntilStop(_, _)
UntilStop(doc, sibs) ==
    IF sibs = <<>> \/ IsStop(doc, Head(sibs)) THEN <<>>
    ELSE <<Head(sibs)>> \o UntilStop(doc, Tail(sibs))

\* The two bs4 builds.  header.next_siblings is a generator, and the loop
\* body moves the node it was just given into fragment, which makes that
\* node the last child of fragment.  A build whose generator remembers the
\* successor before it yields ("ahead") walks the whole sibling list; a
\* build whose generator reads node.next_sibling after the yield ("after")
\* finds None there and stops after the first sibling.
Builds == {"ahead", "after"}

\* the loop of lines 70-73: the nodes appended to fragment
CollectFragment(doc, h, bs4) ==
    LET all == UntilStop(doc, FollowingSiblings(doc, h))
    IN  IF bs4 = "ahead" THEN all
        ELSE IF all = <<>> THEN <<>> ELSE <<Head(all)>>

\* the first four values of release_pages (lines 19-22)
ReleaseUrls ==
    << "https://docs.mend.io/platform/latest/mend-platform-release-notes",
       "https://docs.mend.io/platform/latest/mend-sca-release-notes",
       "https://docs.mend.io/platform/latest/mend-sast-release-notes",
       "https://docs.mend.io/platform/latest/mend-container-release-notes" >>

\* urllib.parse.urljoin, tabulated: every URL of ReleaseUrls lies in
\* /platform/latest/, where "../foo" is https://docs.mend.io/platform/foo
urljoin(url, href) ==
    IF href = <<46, 46, 47, 102, 111, 111>>
    THEN <<104, 116, 116, 112, 115, 58, 47, 47, 100, 111, 99, 115, 46, 109,
           101, 110, 100, 46, 105, 111, 47, 112, 108, 97, 116, 102, 111, 114,
           109, 47, 102, 111, 111>>
    ELSE href

\* href.startswith(('http://', 'https://', '#', 'mailto:'))
IsAbsolute(href) ==
    \/ StartsWith(href, <<104, 116, 116, 112, 58, 47, 47>>)
    \/ StartsWith(href, <<104, 116, 116, 112, 115, 58, 47, 47>>)
    \/ StartsWith(href, <<35>>)
    \/ StartsWith(href, <<109, 97, 105, 108, 116, 111, 58>>)

\* lines 76-79, for one link
RewriteHref(url, href) == IF IsAbsolute(href) THEN href ELSE urljoin(url, href)

TagName(name) ==
    CASE name = "p" -> <<112>>
      [] name = "a" -> <<97>>
      [] name = "h2" -> <<104, 50>>
      [] name = "h3" -> <<104, 51>>
      [] name = "h4" -> <<104, 52>>

\* str() of one leaf, its link rewritten
LeafHtml(url, l) ==
    IF l.name = "#text" THEN l.text
    ELSE IF l.name = "a"
         THEN <<60, 97, 32, 104, 114, 101, 102, 61, 34>>
              \o RewriteHref(url, l.href) \o <<34, 62>> \o l.text
              \o <<60, 47, 97, 62>>
         ELSE <<60>> \o TagName(l.name) \o <<62>> \o l.text
              \o <<60, 47>> \o TagName(l.name) \o <<62>>

\* str() of one collected sibling
ItemHtml(url, doc, it) ==
    LET inner == Flatten([k \in 1..(it.last - it.first + 1) |->
                            LeafHtml(url, doc[it.first + k - 1].leaf)])
    IN  IF it.div
        THEN <<60, 100, 105, 118, 62>> \o inner \o <<60, 47, 100, 105, 118, 62>>
        ELSE inner

\* str(fragment) after the link rewriting
FragmentHtml(url, doc, items) ==
    Flatten([k \in DOMAIN items |-> ItemHtml(url, doc, items[k])])

(***************************************************************************)
(* Responses of requests.get: a failure carries the exception's message,   *)
(* a success carries the parsed document.                                  *)
(***************************************************************************)
Failure(kind, msg) == [kind |-> kind, msg |-> msg, doc |-> <<>>]

Fetched(doc) == [kind |-> "ok", msg |-> <<>>, doc |-> doc]

HtmlFailures ==
    { Failure("timeout", <<116, 105, 109, 101, 100, 32, 111, 117, 116>>),
      \* raise_for_status: "404 Client Error"
      Failure("status", <<52, 48, 52, 32, 67, 108, 105, 101, 110, 116, 32,
                          69, 114, 114, 111, 114>>),
      \* BeautifulSoup(...) raises: "parser error"
      Failure("parse", <<112, 97, 114, 115, 101, 114, 32, 101, 114, 114, 111, 114>>) }

\* "Error fetching content"
ErrorLabel ==
    <<69, 114, 114, 111, 114, 32, 102, 101, 116, 99, 104, 105, 110, 103, 32,
      99, 111, 110, 116, 101, 110, 116>>

\* "Release"
ReleaseLabel == <<82, 101, 108, 101, 97, 115, 101>>

\* "'NoneType' object has no attribute 'next_siblings'"
NoneTypeMessage ==
    <<39, 78, 111, 110, 101, 84, 121, 112, 101, 39, 32, 111, 98, 106, 101,
      99, 116, 32, 104, 97, 115, 32, 110, 111, 32, 97, 116, 116, 114, 105,
      98, 117, 116, 101, 32, 39, 110, 101, 120, 116, 95, 115, 105, 98, 108,
      105, 110, 103, 115, 39>>

\* <p>...</p>
Paragraph(text) == <<60, 112, 62>> \o text \o <<60, 47, 112, 62>>

Result(raised, msg, label, body, header, nodes) ==
    [raised |-> raised, msg |-> msg, label |-> label, body |-> body,
     header |-> header, nodes |-> nodes]

\* The statements both scripts share (rssfeed.py lines 53-82, RSSFEED.py
\* lines 53-73), run without a handler: the result, or the exception raised.
\* With no heading at all, header is None and version_text is 'Release',
\* and the next statement, header.next_siblings, raises AttributeError.
ExtractLatest(url, resp, bs4) ==
    IF resp.kind # "ok"
    THEN Result(TRUE, resp.msg, <<>>, <<>>, 0, <<>>)
    ELSE LET header == FindHeader(resp.doc)
             version_text == IF header # 0 THEN get_text(resp.doc[header])
                             ELSE ReleaseLabel
         IN  IF header = 0
             THEN Result(TRUE, NoneTypeMessage, <<>>, <<>>, 0, <<>>)
             ELSE LET fragment == CollectFragment(resp.doc, header, bs4)
                  IN  Result(FALSE, <<>>, version_text,
                             normalize_quotes(FragmentHtml(url, resp.doc, fragment)),
                             header, fragment)

\* rssfeed.py: every exception is turned into the placeholder (lines 83-84)
rssfeed_fetch_latest_release_html(url, resp, bs4) ==
    LET r == ExtractLatest(url, resp, bs4)
    IN  IF r.raised
        THEN Result(FALSE, <<>>, ErrorLabel,
                    normalize_quotes(Paragraph(r.msg)), 0, <<>>)
        ELSE r

\* RSSFEED.py: the function has no handler, the exception leaves it
RSSFEED_fetch_latest_release_html(url, resp, bs4) ==
    ExtractLatest(url, resp, bs4)

Scripts == {"rssfeed.py", "RSSFEED.py"}

fetch_latest_release_html(which, url, resp, bs4) ==
    IF which = "rssfeed.py"
    THEN rssfeed_fetch_latest_release_html(url, resp, bs4)
    ELSE RSSFEED_fetch_latest_release_html(url, resp, bs4)

(***************************************************************************)
(* Timestamps.  wall is the clock reading YYMMDDHH, tz the UTC offset the  *)
(* datetime carries, "naive" when it carries none.                         *)
(***************************************************************************)
Stamp(wall, tz) == [wall |-> wall, tz |-> tz]

NoStamp == Stamp(0, "none")

\* datetime.now(timezone.utc), read when the clock shows c
Now(c) == Stamp(26110400 + c, "+00:00")

\* the instant a datetime denotes, for comparing two aware datetimes
Instant(ts) == IF ts.tz = "+02:00" THEN ts.wall - 2 ELSE ts.wall

\* dateutil.parser.parse, tabulated for the parenthesized texts of Leaves:
\* "March 3, 2024" is a date without timezone, "2024-01-05T10:00+02:00"
\* carries an offset, "beta" raises ParserError
dateutil_parse(date_str) ==
    IF date_str = <<77, 97, 114, 99, 104, 32, 51, 44, 32, 50, 48, 50, 52>>
    THEN [raised |-> FALSE, dt |-> Stamp(24030300, "naive")]
    ELSE IF date_str = <<50, 48, 50, 52, 45, 48, 49, 45, 48, 53, 84, 49, 48,
                         58, 48, 48, 43, 48, 50, 58, 48, 48>>
    THEN [raised |-> FALSE, dt |-> Stamp(24010510, "+02:00")]
    ELSE [raised |-> TRUE, dt |-> NoStamp]

\* re.search(r'\(([^)]+)\)', text): the positions where a match can start
ParenStarts(text) ==
    {p \in DOMAIN text :
        /\ text[p] = 40
        /\ p + 1 <= Len(text)
        /\ text[p + 1] # 41
        /\ \E q \in (p + 2)..Len(text) : text[q] = 41}

\* m.group(1) of the leftmost match
ParenGroup(text) ==
    LET p == Min(ParenStarts(text))
        q == Min({r \in (p + 2)..Len(text) : text[r] = 41})
    IN  SubSeq(text, p + 1, q - 1)

\* parse_version_date, called when the clock shows c
parse_version_date(version_text, c) ==
    IF ParenStarts(version_text) = {} THEN Now(c)
    ELSE LET r == dateutil_parse(ParenGroup(version_text))
         IN  IF r.raised THEN Now(c)
             ELSE IF r.dt.tz = "naive" THEN Stamp(r.dt.wall, "+00:00")
             ELSE r.dt

(***************************************************************************)
(* Atom documents.  soup.find('entry') sees the first entry only, so a     *)
(* feed is its first entry, or no entry.  A child element of the entry is  *)
(* absent or holds a text.                                                 *)
(***************************************************************************)
Absent == [present |-> FALSE, text |-> <<>>]

Child(text) == [present |-> TRUE, text |-> text]

Titles == {Absent, Child(<<118, 49>>)}                    \* "v1"

Updateds ==
    { Absent, Child(<<>>), Child(<<115, 111, 111, 110>>),    \* "", "soon"
      \* "2024-03-03T10:00:00"
      Child(<<50, 48, 50, 52, 45, 48, 51, 45, 48, 51, 84, 49, 48, 58, 48, 48,
              58, 48, 48>>),
      \* "2024-03-03T10:00:00Z"
      Child(<<50, 48, 50, 52, 45, 48, 51, 45, 48, 51, 84, 49, 48, 58, 48, 48,
              58, 48, 48, 90>>) }

Summaries == {Absent, Child(<<>>), Child(<<102, 105, 120>>)}   \* "", "fix"

Links ==
    { [present |-> FALSE, has_href |-> FALSE, href |-> ""],
      [present |-> TRUE, has_href |-> FALSE, href |-> ""],
      [present |-> TRUE, has_href |-> TRUE,
       href |-> "https://github.com/renovatebot/renovate/releases/tag/v1"] }

AtomEntries ==
    [title : Titles, updated : Updateds, summary : Summaries, link : Links]

AtomFeeds == {<<>>} \cup {<<e>> : e \in AtomEntries}

\* str.replace(old, new) for a one-character old
RECURSIVE Replace(_, _, _)
Replace(s, old, new) ==
    IF s = <<>> THEN <<>>
    ELSE (IF Head(s) = old THEN new ELSE <<Head(s)>>)
         \o Replace(Tail(s), old, new)

\* datetime.fromisoformat, tabulated for the texts of Updateds after the
\* replacement of 'Z': anything else raises ValueError
fromisoformat(text) ==
    IF text = <<50, 48, 50, 52, 45, 48, 51, 45, 48, 51, 84, 49, 48, 58, 48,
                48, 58, 48, 48>>
    THEN [raised |-> FALSE, dt |-> Stamp(24030310, "naive")]
    ELSE IF text = <<50, 48, 50, 52, 45, 48, 51, 45, 48, 51, 84, 49, 48, 58,
                     48, 48, 58, 48, 48, 43, 48, 48, 58, 48, 48>>
    THEN [raised |-> FALSE, dt |-> Stamp(24030310, "+00:00")]
    ELSE [raised |-> TRUE, dt |-> NoStamp]

\* datetime.fromisoformat(updated.replace('Z', '+00:00')), with the
\* handler of both scripts around it
ParseUpdated(updated, c) ==
    LET r == fromisoformat(Replace(updated, 90, <<43, 48, 48, 58, 48, 48>>))
    IN  IF r.raised THEN Now(c) ELSE r.dt

\* "See GitHub release for details."
Placeholder ==
    <<83, 101, 101, 32, 71, 105, 116, 72, 117, 98, 32, 114, 101, 108, 101,
      97, 115, 101, 32, 102, 111, 114, 32, 100, 101, 116, 97, 105, 108, 115,
      46>>

\* the dict of one feed entry
FeedEntry(title, link, description, pubDate) ==
    [title |-> title, link |-> link, description |-> description,
     pubDate |-> pubDate]

\* f"{name}: {label}"
Title(name, label) == name \o <<58, 32>> \o label

AtomResult(raised, new) == [raised |-> raised, new |-> new]

AtomFailures ==
    { Failure("timeout", <<116, 105, 109, 101, 100, 32, 111, 117, 116>>),
      \* BeautifulSoup(resp.content, 'xml') raises: "parser error"
      Failure("parse", <<112, 97, 114, 115, 101, 114, 32, 101, 114, 114, 111, 114>>) }

AtomFetched(feed) == [kind |-> "ok", msg |-> <<>>, doc |-> feed]

\* The body of the github_feeds loop of rssfeed.py (lines 113-134).  The
\* status of the response is not looked at: the body of a non-2xx response
\* is parsed like any other, and is a feed without entry.  Reading
\* .text of an absent child raises AttributeError; the handler of line 133
\* prints a warning and the source contributes nothing.
rssfeed_atom(name, feed_url, resp, c) ==
    IF resp.kind # "ok" THEN AtomResult(FALSE, <<>>)
    ELSE IF resp.doc = <<>> THEN AtomResult(FALSE, <<>>)
    ELSE LET entry_xml == resp.doc[1]
             summary == IF entry_xml.summary.text # <<>>
                        THEN entry_xml.summary.text ELSE Placeholder
             href == IF entry_xml.link.present /\ entry_xml.link.has_href
                     THEN entry_xml.link.href ELSE feed_url
         IN  IF ~entry_xml.updated.present THEN AtomResult(FALSE, <<>>)
             ELSE IF ~entry_xml.summary.present THEN AtomResult(FALSE, <<>>)
             ELSE IF ~entry_xml.title.present THEN AtomResult(FALSE, <<>>)
             ELSE AtomResult(FALSE,
                    <<FeedEntry(Title(name, entry_xml.title.text), href,
                                Paragraph(normalize_quotes(summary)),
                                ParseUpdated(entry_xml.updated.text, c))>>)

\* The body of the github_feeds loop of RSSFEED.py (lines 100-117).  There
\* is no handler: a failed fetch and an absent title raise out of the loop.
\* An absent or empty summary gives the empty text, an absent or empty
\* updated gives the current time.
RSSFEED_atom(name, feed_url, resp, c) ==
    IF resp.kind # "ok" THEN AtomResult(TRUE, <<>>)
    ELSE IF resp.doc = <<>> THEN AtomResult(FALSE, <<>>)
    ELSE LET entry_xml == resp.doc[1]
             updated == IF entry_xml.updated.present
                        THEN entry_xml.updated.text ELSE <<>>
             timestamp == IF updated # <<>> THEN ParseUpdated(updated, c)
                          ELSE Now(c)
             summary_text == IF entry_xml.summary.present
                                /\ entry_xml.summary.text # <<>>
                             THEN entry_xml.summary.text ELSE <<>>
             href == IF entry_xml.link.present /\ entry_xml.link.has_href
                     THEN entry_xml.link.href ELSE feed_url
         IN  IF ~entry_xml.title.present THEN AtomResult(TRUE, <<>>)
             ELSE AtomResult(FALSE,
                    <<FeedEntry(Title(name, entry_xml.title.text), href,
                                Paragraph(normalize_quotes(summary_text)),
                                timestamp)>>)

\* max(e['pubDate'] for e in entries): comparing a naive datetime with an
\* aware one raises TypeError
MaxComparable(es) ==
    \A a, b \in DOMAIN es :
        (es[a].pubDate.tz = "naive") = (es[b].pubDate.tz = "naive")

Latest(es) ==
    es[CHOOSE a \in DOMAIN es :
          \A b \in DOMAIN es :
              /\ Instant(es[b].pubDate) <= Instant(es[a].pubDate)
              /\ Instant(es[b].pubDate) = Instant(es[a].pubDate) => a <= b].pubDate

\* feedgen rejects a datetime without tzinfo (fg.updated, fe.pubDate):
\* ValueError('Datetime object has no timezone info')
AllAware(es) == \A a \in DOMAIN es : es[a].pubDate.tz # "naive"

(***************************************************************************)
(* Specification of the Text Normalizer: an input text is normalized, and  *)
(* the result is normalized again.                                         *)
(***************************************************************************)
normVars == <<nIn, nOut, nOut2, nPc>>

extractVars == <<xResp, xRes, xScript, xBuild>>

runVars == <<script, build, pc, i, entries, log, clock, raisedIn, feedUpdated>>

vars == <<normVars, extractVars, runVars>>

NormIdle == nIn = <<>> /\ nOut = <<>> /\ nOut2 = <<>> /\ nPc = "idle"

ExtractIdle ==
    /\ xResp = Fetched(<<>>)
    /\ xRes = Result(FALSE, <<>>, <<>>, <<>>, 0, <<>>)
    /\ xScript = "idle"
    /\ xBuild = "idle"

RunIdle ==
    /\ script = "idle"
    /\ build = "idle"
    /\ pc = "idle"
    /\ i = 0
    /\ entries = <<>>
    /\ log = <<>>
    /\ clock = 0
    /\ raisedIn = "none"
    /\ feedUpdated = NoStamp

InitNorm ==
    /\ nIn \in Texts
    /\ nOut = <<>>
    /\ nOut2 = <<>>
    /\ nPc = "start"
    /\ ExtractIdle
    /\ RunIdle

NormalizeOnce ==
    /\ nPc = "start"
    /\ nOut' = normalize_quotes(nIn)
    /\ nPc' = "once"
    /\ UNCHANGED <<nIn, nOut2, extractVars, runVars>>

NormalizeTwice ==
    /\ nPc = "once"
    /\ nOut2' = normalize_quotes(nOut)
    /\ nPc' = "twice"
    /\ UNCHANGED <<nIn, nOut, extractVars, runVars>>

NextNorm == NormalizeOnce \/ NormalizeTwice

SpecNorm == InitNorm /\ [][NextNorm]_vars

(***************************************************************************)
(* Specification of the Version Extractor: fetch_latest_release_html of    *)
(* either script is called once, on any response.                          *)
(***************************************************************************)
HtmlResponsesAll == HtmlFailures \cup {Fetched(d) : d \in Docs}

InitExtract ==
    /\ xResp \in HtmlResponsesAll
    /\ xRes = Result(FALSE, <<>>, <<>>, <<>>, 0, <<>>)
    /\ xScript = "none"
    /\ xBuild = "none"
    /\ NormIdle
    /\ RunIdle

Extract_rssfeed ==
    /\ xScript = "none"
    /\ \E b \in Builds :
          /\ xRes' = fetch_latest_release_html("rssfeed.py", ReleaseUrls[1], xResp, b)
          /\ xBuild' = b
    /\ xScript' = "rssfeed.py"
    /\ UNCHANGED <<xResp, normVars, runVars>>

Extract_RSSFEED ==
    /\ xScript = "none"
    /\ \E b \in Builds :
          /\ xRes' = fetch_latest_release_html("RSSFEED.py", ReleaseUrls[1], xResp, b)
          /\ xBuild' = b
    /\ xScript' = "RSSFEED.py"
    /\ UNCHANGED <<xResp, normVars, runVars>>

NextExtract == Extract_rssfeed \/ Extract_RSSFEED

SpecExtract == InitExtract /\ [][NextExtract]_vars

(***************************************************************************)
(* Specification of a run: the release_pages loop, the github_feeds loop   *)
(* and the output stage of either script, with any response to each fetch. *)
(***************************************************************************)

\* the first four keys of release_pages (lines 19-22)
ReleaseNames ==
    << <<77, 101, 110, 100, 32, 65, 112, 112, 83, 101, 99, 32, 80, 108, 97,
         116, 102, 111, 114, 109>>,                      \* "Mend AppSec Platform"
       <<77, 101, 110, 100, 32, 83, 67, 65>>,            \* "Mend SCA"
       <<77, 101, 110, 100, 32, 83, 65, 83, 84>>,        \* "Mend SAST"
       <<77, 101, 110, 100, 32, 67, 111, 110, 116, 97, 105, 110, 101, 114>> >>
                                                         \* "Mend Container"

\* github_feeds: "mend Renovate"
FeedName == <<109, 101, 110, 100, 32, 82, 101, 110, 111, 118, 97, 116, 101>>

FeedUrl == "https://github.com/renovatebot/renovate/releases.atom"

At(depth, leaf) == [leaf |-> leaf, depth |-> depth]

\* the pages a fetch can return during a run
RunDocs ==
    { <<>>,
      <<At(0, VersionH2), At(0, ParaNode)>>,
      <<At(0, NotesH4)>>,
      <<At(0, VersionH3), At(0, TextNode), At(0, RelLinkNode)>> }

HtmlResponses == HtmlFailures \cup {Fetched(d) : d \in RunDocs}

AtomResponses == AtomFailures \cup {AtomFetched(f) : f \in AtomFeeds}

LogEntry(kind, resp, raised, count) ==
    [kind |-> kind, resp |-> resp, raised |-> raised, count |-> count]

InitRun ==
    /\ script \in Scripts
    /\ build \in Builds
    /\ pc = "html"
    /\ i = 0
    /\ entries = <<>>
    /\ log = <<>>
    /\ clock = 0
    /\ raisedIn = "none"
    /\ feedUpdated = NoStamp
    /\ NormIdle
    /\ ExtractIdle

\* one iteration of the release_pages loop (rssfeed.py 102-110, RSSFEED.py 90-97)
HtmlSource ==
    /\ pc = "html"
    /\ i < NumHtml
    /\ \E resp \in HtmlResponses :
          LET name == ReleaseNames[i + 1]
              url == ReleaseUrls[i + 1]
              r == fetch_latest_release_html(script, url, resp, build)
          IN  IF r.raised
              THEN /\ pc' = "crashed"
                   /\ raisedIn' = "html"
                   /\ log' = Append(log, LogEntry("html", resp, TRUE, 0))
                   /\ UNCHANGED <<i, entries>>
              ELSE /\ entries' = Append(entries,
                                    FeedEntry(Title(name, r.label), url, r.body,
                                              parse_version_date(r.label, clock)))
                   /\ log' = Append(log, LogEntry("html", resp, FALSE, 1))
                   /\ i' = i + 1
                   /\ pc' = IF i + 1 = NumHtml THEN "atom" ELSE "html"
                   /\ UNCHANGED raisedIn
    /\ clock' = clock + 1
    /\ UNCHANGED <<script, build, feedUpdated, normVars, extractVars>>

\* the github_feeds loop, which has one feed (rssfeed.py 112-134,
\* RSSFEED.py 99-117)
AtomSource ==
    /\ pc = "atom"
    /\ \E resp \in AtomResponses :
          LET r == IF script = "rssfeed.py"
                   THEN rssfeed_atom(FeedName, FeedUrl, resp, clock)
                   ELSE RSSFEED_atom(FeedName, FeedUrl, resp, clock)
          IN  /\ log' = Append(log, LogEntry("atom", resp, r.raised, Len(r.new)))
              /\ IF r.raised
                 THEN /\ pc' = "crashed"
                      /\ raisedIn' = "atom"
                      /\ UNCHANGED entries
                 ELSE /\ entries' = entries \o r.new
                      /\ pc' = "output"
                      /\ UNCHANGED raisedIn
    /\ clock' = clock + 1
    /\ UNCHANGED <<script, build, i, feedUpdated, normVars, extractVars>>

\* the output stage of rssfeed.py (lines 137-166): every entry is handed to
\* feedgen, then the files are written
Output_rssfeed ==
    /\ pc = "output"
    /\ script = "rssfeed.py"
    /\ IF AllAware(entries)
       THEN pc' = "done" /\ UNCHANGED raisedIn
       ELSE pc' = "crashed" /\ raisedIn' = "output"
    /\ UNCHANGED <<script, build, i, entries, log, clock, feedUpdated,
                   normVars, extractVars>>

\* the output stage of RSSFEED.py (lines 120-178): the feed's updated time
\* is the latest pubDate, or the current time when there is no entry
Output_RSSFEED ==
    /\ pc = "output"
    /\ script = "RSSFEED.py"
    /\ IF MaxComparable(entries) /\ AllAware(entries)
       THEN /\ pc' = "done"
            /\ feedUpdated' = IF entries # <<>> THEN Latest(entries) ELSE Now(clock)
            /\ UNCHANGED raisedIn
       ELSE /\ pc' = "crashed"
            /\ raisedIn' = "output"
            /\ UNCHANGED feedUpdated
    /\ UNCHANGED <<script, build, i, entries, log, clock, normVars, extractVars>>

NextRun == HtmlSource \/ AtomSource \/ Output_rssfeed \/ Output_RSSFEED

SpecRun == InitRun /\ [][NextRun]_vars

(***************************************************************************)
(* Properties                                                              *)
(***************************************************************************)

\* the log entries of the sources of one kind, by position
SourcesOf(kind) == {k \in DOMAIN log : log[k].kind = kind}

\* C1: every HTML source yields exactly one entry; a source whose fetch
\* failed yields the entry titled "{name}: Error fetching content" with the
\* body "<p>{error message}</p>", and no exception leaves the loop, so the
\* later sources and the output stage are still reached.
C1_EveryHtmlSourceYieldsOneEntry ==
    \A k \in SourcesOf("html") :
        /\ ~log[k].raised
        /\ log[k].count = 1
        /\ k \in DOMAIN entries
        /\ log[k].resp.kind # "ok" =>
              /\ entries[k].title = Title(ReleaseNames[k], ErrorLabel)
              /\ entries[k].description = Paragraph(log[k].resp.msg)

\* C2: an Atom source whose fetch or parse fails, or whose document has no
\* entry, adds no entry and raises nothing; the run goes on to the output
\* stage.
C2_FailedAtomSourceIsSkipped ==
    \A k \in SourcesOf("atom") :
        (log[k].resp.kind # "ok" \/ log[k].resp.doc = <<>>) =>
            /\ ~log[k].raised
            /\ log[k].count = 0
            /\ pc \in {"output", "done"} \/ raisedIn = "output"

\* C3: for a fetched document without any h2, h3 or h4 the function returns
\* the label "Release" and an empty body; it does not raise and does not
\* return the "Error fetching content" placeholder.
C3_NoHeadingGivesRelease ==
    (xScript \in Scripts /\ xResp.kind = "ok" /\ HeadingPositions(xResp.doc) = {}) =>
        /\ ~xRes.raised
        /\ xRes.label = ReleaseLabel
        /\ xRes.body = <<>>

\* C4: the body is made of exactly the siblings that follow the anchor
\* heading, all of them and in order, up to but excluding the first
\* following sibling that is an h2, h3 or h4 (or up to the last sibling).
C4_BodyIsTheSectionSiblings ==
    (xScript \in Scripts /\ xResp.kind = "ok" /\ HeadingPositions(xResp.doc) # {}) =>
        LET sibs == FollowingSiblings(xResp.doc, xRes.header)
            stops == {k \in DOMAIN sibs : IsStop(xResp.doc, sibs[k])}
            n == IF stops = {} THEN Len(sibs) ELSE Min(stops) - 1
        IN  /\ ~xRes.raised
            /\ xRes.header # 0
            /\ xRes.nodes = SubSeq(sibs, 1, n)

\* a character that every step of normalize_quotes is meant to keep
IsPlain(c) == c < 128 /\ c # 38

\* C5: a smart double-quote glyph of the input is a plain '"' at the same
\* position of the output, a smart single-quote glyph a plain "'" (stated
\* for the glyphs that only plain characters and glyphs precede, so that
\* the position is the same).
C5_SmartQuotesAreReplacedInPlace ==
    nPc \in {"once", "twice"} =>
        \A p \in DOMAIN nIn :
            (\A q \in 1..(p - 1) :
                IsPlain(nIn[q]) \/ nIn[q] \in SmartDouble \cup SmartSingle) =>
                /\ nIn[p] \in SmartDouble => (p \in DOMAIN nOut /\ nOut[p] = 34)
                /\ nIn[p] \in SmartSingle => (p \in DOMAIN nOut /\ nOut[p] = 39)

\* the first entry of the feed the Atom source at log position k received
EntryAt(k) == log[k].resp.doc[1]

HasEntry(k) == log[k].resp.kind = "ok" /\ log[k].resp.doc # <<>>

\* C6: an entry whose summary is absent or empty still gives exactly one
\* FeedEntry, with the body "<p>See GitHub release for details.</p>"
\* (stated for entries that have a title and an updated element).
C6_MissingSummaryGivesPlaceholder ==
    \A k \in SourcesOf("atom") :
        ( /\ HasEntry(k)
          /\ EntryAt(k).title.present
          /\ EntryAt(k).updated.present
          /\ EntryAt(k).summary.text = <<>> ) =>
            /\ log[k].count = 1
            /\ entries # <<>>
            /\ entries[Len(entries)].description = Paragraph(Placeholder)

\* the texts of updated that are not ISO-8601
BadUpdated == {<<>>, <<115, 111, 111, 110>>}

\* C7: an entry whose updated is absent, empty or not ISO-8601 still gives
\* exactly one FeedEntry, stamped with the current UTC time (stated for
\* entries that have a title and a summary element).
C7_BadUpdatedFallsBackToNow ==
    \A k \in SourcesOf("atom") :
        ( /\ HasEntry(k)
          /\ EntryAt(k).title.present
          /\ EntryAt(k).summary.present
          /\ ~EntryAt(k).updated.present \/ EntryAt(k).updated.text \in BadUpdated ) =>
            /\ log[k].count = 1
            /\ entries # <<>>
            /\ entries[Len(entries)].pubDate = Now(k - 1)

\* C8: every entry's pubDate is set and carries a timezone, so the maximum
\* over the entries can be computed.
C8_EveryPubDateIsAware ==
    /\ \A k \in DOMAIN entries : entries[k].pubDate.tz \notin {"none", "naive"}
    /\ MaxComparable(entries)

\* x starts an HTML entity escape at position p
EntityAt(x, p) ==
    /\ x[p] = 38
    /\ \E name \in Html5Names : StartsWith(SubSeq(x, p + 1, Len(x)), name)

\* x has no smart-quote glyph and no HTML entity escape
IsClean(x) ==
    \A p \in DOMAIN x :
        /\ x[p] \notin SmartDouble \cup SmartSingle
        /\ ~EntityAt(x, p)

IsAscii(x) == \A p \in DOMAIN x : x[p] < 128

AnchorOf(doc) ==
    LET hs == {p \in DOMAIN doc : doc[p].leaf.name \in {"h2", "h3", "h4"}}
        vs == {p \in hs :
                 StartsWith(Lower(RStrip(LStrip(doc[p].leaf.text))),
                            <<118, 101, 114, 115, 105, 111, 110>>)}
    IN  IF vs # {}
        THEN CHOOSE p \in vs : \A q \in vs : p <= q
        ELSE CHOOSE p \in hs : \A q \in hs : p <= q

\* C10: for a document with at least one h2, h3 or h4 the label is the
\* trimmed text of the first heading that starts with "version" (any
\* case), else of the first heading; the body is taken after that heading.
C10_LabelIsFirstVersionHeading ==
    (xScript \in Scripts /\ xResp.kind = "ok" /\ HeadingPositions(xResp.doc) # {}) =>
        LET h == AnchorOf(xResp.doc)
            sibs == FollowingSiblings(xResp.doc, h)
        IN  /\ ~xRes.raised
            /\ xRes.header = h
            /\ xRes.label = RStrip(LStrip(xResp.doc[h].leaf.text))
            /\ Len(xRes.nodes) <= Len(sibs)
            /\ \A k \in DOMAIN xRes.nodes : xRes.nodes[k] = sibs[k]

\* a page whose first heading is "Notes (beta)" and whose second is
\* "  VERSION 3 (...) ": the second one was taken, and what follows it
C10_Witness ==
    /\ xScript \in Scripts
    /\ xResp.kind = "ok"
    /\ Len(xResp.doc) = 3
    /\ xResp.doc[1].leaf = NotesH4
    /\ xResp.doc[2].leaf = VersionH3
    /\ xResp.doc[2].depth = xResp.doc[3].depth
    /\ xRes.header = 2
    /\ xRes.label # xResp.doc[2].leaf.text
    /\ Len(xRes.nodes) = 1

(***************************************************************************)
(* Where the refuted statements do hold                                    *)
(***************************************************************************)

\* C1 and C2 hold of rssfeed.py, whose handlers catch every failure
HandlersOfRssfeed ==
    script = "rssfeed.py" =>
        C1_EveryHtmlSourceYieldsOneEntry /\ C2_FailedAtomSourceIsSkipped

\* C4 holds when the sibling generator looks ahead before it yields
SectionWithLookahead == xBuild = "ahead" => C4_BodyIsTheSectionSiblings

\* C7 holds of RSSFEED.py, which tests for the updated element
UpdatedOfRSSFEED == script = "RSSFEED.py" => C7_BadUpdatedFallsBackToNow

====
